---- MODULE Spec2Model ----
(***************************************************************************)
(* State-machine model of the gesture-driven particle system:              *)
(*   ParticleSystem (Particles.js), the shape/palette tables (utils.js),   *)
(*   HandInput (HandInput.js) and the page script (main.js).               *)
(*                                                                         *)
(* Numbers are fixed-point integers with three decimals (0.025 is 25,      *)
(* 1.0 is 1000, a dt of 16 ms is 16); a product of two such numbers is     *)
(* divided by 1000 again, rounded to the nearest.  NaN is a value of its own that every            *)
(* arithmetic operation propagates and every comparison rejects, as in     *)
(* JavaScript.  Particle indices run from 0 as in the source.              *)
(***************************************************************************)
EXTENDS Integers, Sequences, FiniteSets, TLC

(***************************************************************************)
(* Bounds of the model.                                                    *)
(***************************************************************************)
\* particles allocated by the constructor (the source allocates 20000)
count == 2
\* update calls explored in one run
MaxTicks == 2
\* cycleColors calls explored in one run
MaxCycles == 5
\* keys pressed on the page in one run
MaxKeys == 1
\* update calls of one long run under an unchanging snapshot
MaxFrames == 1200

(***************************************************************************)
(* JavaScript numbers.                                                     *)
(***************************************************************************)
One == 1000

NaN == -2000000000

isNaN(x) == x = NaN

Add(a, b) == IF isNaN(a) \/ isNaN(b) THEN NaN ELSE a + b

Sub(a, b) == IF isNaN(a) \/ isNaN(b) THEN NaN ELSE a - b

\* a product, rounded to the nearest thousandth
Mul(a, b) ==
    IF isNaN(a) \/ isNaN(b) THEN NaN ELSE (a * b + 500) \div One

\* a quotient, rounded to the nearest thousandth (b is positive)
Div(a, b) == (2 * a * One + b) \div (2 * b)

Lt(a, b) == ~isNaN(a) /\ ~isNaN(b) /\ a < b

\* Math.min(1, x): NaN if x is NaN
Min1(x) == IF isNaN(x) THEN NaN ELSE IF x < One THEN x ELSE One

Abs(x) == IF x < 0 THEN -x ELSE x

\* x * x for a coordinate difference.  Differences beyond 40 units are
\* squared as 40 units (1600, far above the interaction radius of 50) to
\* keep the products inside the checker's 32-bit integers.
Sq(d) ==
    IF isNaN(d) THEN NaN
    ELSE IF Abs(d) > 40000 THEN 1600 * One
    ELSE (d * d) \div One

RECURSIVE SqrtIter(_, _, _)
SqrtIter(n, lo, hi) ==
    IF lo >= hi THEN lo
    ELSE LET mid == (lo + hi + 1) \div 2
         IN  IF mid * mid <= n THEN SqrtIter(n, mid, hi)
             ELSE SqrtIter(n, lo, mid - 1)

\* Math.sqrt on a fixed-point argument below 2000 units
Sqrt(x) == SqrtIter(x * One, 0, 45000)

\* Math.sin and Math.cos by their Taylor polynomials (degree 9 and 8),
\* exact to three decimals for |x| <= 2.  Sin first brings a nonnegative
\* argument into [-pi/2, pi/2] (the clock of a long run goes beyond 2);
\* Cos is only given arguments below 2.
SinPoly(x) ==
    LET x2 == Mul(x, x)
        t4 == One - x2 \div 72
        t3 == One - Mul(x2, t4) \div 42
        t2 == One - Mul(x2, t3) \div 20
        t1 == One - Mul(x2, t2) \div 6
    IN  Mul(x, t1)

Sin(x) ==
    LET r == ((x + 3142) % 6283) - 3142
    IN  SinPoly(IF r > 1571 THEN 3142 - r
                ELSE IF r < -1571 THEN -3142 - r
                ELSE r)

Cos(x) ==
    LET x2 == Mul(x, x)
        t4 == One - x2 \div 56
        t3 == One - Mul(x2, t4) \div 30
        t2 == One - Mul(x2, t3) \div 12
    IN  One - Mul(x2, t2) \div 2

(***************************************************************************)
(* Math.random().  The draws of one call of the constructor or of          *)
(* setTemplate are read from a fixed cyclic stream of values in [0, 1);    *)
(* the caller's seed and the particle index choose where reading starts,   *)
(* and each call site of Math.random() in the loop body has its own slot.  *)
(***************************************************************************)
RandomStream == <<500, 550, 450, 0, 999, 250, 750, 125, 875, 375, 625>>

Seeds == {0, 1}

Offset(seed, i) == (seed * 5 + i * 3) % Len(RandomStream)

random(o, slot) == RandomStream[((o + slot) % Len(RandomStream)) + 1]

randomRange(min, max, r) == Mul(r, max - min) + min

Particles == 0 .. (count - 1)

Vec3(x, y, z) == <<x, y, z>>

(***************************************************************************)
(* utils.js: the shape generators, the palettes and the shape metadata.    *)
(***************************************************************************)
ShapeIds ==
    {"heart", "flower", "saturn", "fireworks", "galaxy", "dna", "star",
     "tornado", "sphere"}

\* parametric[templateName](u, v, target) evaluated at the draws that start
\* at stream position o: u = random(o, 0), v = random(o, 1) and the
\* generator's own Math.random() calls random(o, 2), random(o, 3),
\* random(o, 4).  Entry o + 1 of a row is the point written to target.
ParametricTable ==
    [
        heart     |-> <<<<0, -4268, -164>>, <<-163, -3360, -1533>>, <<0, 2000, 0>>,
                       <<0, 4249, -1000>>, <<0, 3418, 630>>, <<6542, 3635, -1363>>,
                       <<-3600, 2900, 750>>, <<2435, 6996, -478>>, <<-1836, 5766, 361>>,
                       <<2176, -1696, 0>>, <<-2020, -1431, 159>>>>,
        flower    |-> <<<<-9877, 0, -1564>>, <<-3827, -1243, 637>>, <<0, 0, 10000>>,
                       <<31, 0, -10000>>, <<6977, -44, 6977>>, <<0, 10071, -10071>>,
                       <<0, -2948, 7117>>, <<2267, 2267, -7739>>, <<9093, -9093, 5327>>,
                       <<-3972, 3972, -2327>>, <<-10071, -10071, 0>>>>,
        saturn    |-> <<<<-18600, -20, 0>>, <<-15027, -2280, -4417>>, <<0, 0, -3042>>,
                       <<31172, -100, 0>>, <<5683, -30, 2907>>, <<0, 10158, 21895>>,
                       <<0, -5860, 0>>, <<19587, 8293, 17721>>, <<9687, -4076, -8765>>,
                       <<-14637, 6235, 13243>>, <<-12162, -5160, -11004>>>>,
        fireworks |-> <<<<3579, 12666, -2488>>, <<3579, 9979, -2758>>, <<3579, 9979, -8752>>,
                       <<-19905, 10000, 1497>>, <<12919, 10223, -4420>>, <<-6139, -1536, -1277>>,
                       <<7909, 502, -6890>>, <<-21375, 9430, 1688>>, <<20158, 8528, -3108>>,
                       <<-7710, -4678, -902>>, <<11627, -5002, -2952>>>>,
        galaxy    |-> <<<<15307, -1162, 8853>>, <<5388, 1085, -12022>>, <<748, -375, 375>>,
                       <<22023, 750, -20992>>, <<5679, -703, 7476>>, <<-24100, 984, 8073>>,
                       <<1334, -211, 4097>>, <<24871, 352, 736>>, <<11403, 0, 3722>>,
                       <<-18481, 122, -3578>>, <<-3227, -112, 11119>>>>,
        dna       |-> <<<<-1892, 2500, -5694>>, <<-1892, -2500, 5694>>, <<-5987, -25000, -398>>,
                       <<5975, 24950, -547>>, <<-2998, -12612, -100>>, <<5997, 12500, -199>>,
                       <<5993, -18750, 299>>, <<-5993, 18750, 299>>, <<1500, -6250, 25>>,
                       <<-5999, 6250, 100>>, <<-6000, 0, 0>>>>,
        star      |-> <<<<-4450, 0, -100>>, <<-6699, -2177, -1000>>, <<0, 0, 998>>,
                       <<14992, 0, -500>>, <<7455, -47, 500>>, <<0, 9093, -750>>,
                       <<0, -3712, 750>>, <<5457, 5457, -250>>, <<3572, -3572, 250>>,
                       <<-7127, 7127, 0>>, <<-6375, -6375, 100>>>>,
        tornado   |-> <<<<6857, 2000, 2899>>, <<-5199, -2000, 2198>>, <<1307, -20000, -1514>>,
                       <<-13170, 19960, -15004>>, <<-1476, -10000, -2754>>, <<5046, 10000, -11025>>,
                       <<2258, -15000, 322>>, <<-2227, 15000, -15623>>, <<-3813, -5000, -2448>>,
                       <<7600, 5000, -4880>>, <<0, 0, 6500>>>>,
        sphere    |-> <<<<-11353, 0, -1798>>, <<0, 0, 0>>, <<0, 0, 14995>>,
                       <<30, 0, -9449>>, <<9637, -61, 9637>>, <<0, 5303, -5303>>,
                       <<0, -5490, 13255>>, <<2927, 2927, -9993>>, <<8378, -8378, 4908>>,
                       <<-7778, 7778, -4556>>, <<-8690, -8690, 0>>>> ]

parametric(templateName, o) == ParametricTable[templateName][o + 1]

SHAPE_COLORS ==
    [ heart     |-> << <<1000, 150, 350>>, <<1000, 350, 550>>,
                       <<850, 50, 250>>, <<1000, 550, 650>> >>,
      flower    |-> << <<1000, 750, 150>>, <<200, 850, 350>>,
                       <<1000, 450, 650>>, <<950, 550, 100>> >>,
      saturn    |-> << <<550, 250, 900>>, <<900, 700, 200>>,
                       <<750, 450, 1000>>, <<300, 150, 700>> >>,
      fireworks |-> << <<1000, 850, 100>>, <<1000, 250, 100>>,
                       <<150, 1000, 350>>, <<250, 600, 1000>> >>,
      galaxy    |-> << <<100, 700, 1000>>, <<850, 300, 1000>>,
                       <<200, 400, 1000>>, <<950, 900, 750>> >>,
      dna       |-> << <<0, 900, 800>>, <<0, 600, 1000>>,
                       <<300, 1000, 500>>, <<100, 800, 900>> >>,
      star      |-> << <<1000, 950, 500>>, <<1000, 800, 200>>,
                       <<1000, 650, 0>>, <<1000, 1000, 850>> >>,
      tornado   |-> << <<600, 600, 700>>, <<400, 450, 550>>,
                       <<800, 850, 900>>, <<350, 400, 500>> >>,
      sphere    |-> << <<300, 500, 1000>>, <<400, 650, 1000>>,
                       <<500, 750, 1000>>, <<200, 400, 900>> >> ]

\* Property names that parametric, SHAPE_COLORS and SHAPE_META, being plain
\* object literals, answer through Object.prototype: functions (callable)
\* and the prototype object itself (truthy, not callable).
InheritedFunctions == {"toString", "constructor"}

InheritedObjects == {"__proto__"}

\* !parametric[templateName] is false: the lookup yields a truthy value
Truthy(templateName) ==
    templateName \in ShapeIds \cup InheritedFunctions \cup InheritedObjects

\* SHAPE_META[name] is defined and the indicator element exists
HasMeta(name) == name \in ShapeIds

Zero3 == Vec3(0, 0, 0)

(***************************************************************************)
(* ParticleSystem.showShapeIndicator                                       *)
(***************************************************************************)
\* setTimeout returns an id no pending timeout has
FreshTimeout(tm) == CHOOSE id \in 1 .. (Cardinality(tm) + 1) : id \notin tm

\* showShapeIndicator without clearTimeout
showShapeIndicatorNoClear(self, ind, tm, name) ==
    IF ~HasMeta(name)
    THEN [ps |-> self, ind |-> ind, tm |-> tm, threw |-> FALSE]
    ELSE LET id == FreshTimeout(tm)
         IN  [ps   |-> [self EXCEPT !._indicatorTimeout = id],
              ind  |-> [show |-> TRUE, name |-> name],
              tm   |-> tm \cup {id},
              threw |-> FALSE]

showShapeIndicator(self, ind, tm, name) ==
    IF ~HasMeta(name)
    THEN [ps |-> self, ind |-> ind, tm |-> tm, threw |-> FALSE]
    ELSE LET cleared == tm \ {self._indicatorTimeout}
             id == FreshTimeout(cleared)
         IN  [ps   |-> [self EXCEPT !._indicatorTimeout = id],
              ind  |-> [show |-> TRUE, name |-> name],
              tm   |-> cleared \cup {id},
              threw |-> FALSE]

(***************************************************************************)
(* ParticleSystem.setTemplate                                              *)
(***************************************************************************)
\* SHAPE_COLORS[templateName] || SHAPE_COLORS.sphere: a shape's palette, an
\* inherited value (truthy, no indexed entries), or the sphere palette
PaletteOf(templateName) ==
    IF templateName \in ShapeIds THEN SHAPE_COLORS[templateName]
    ELSE IF Truthy(templateName) THEN <<>>
    ELSE SHAPE_COLORS["sphere"]

\* palette[k % palette.length]: <<>> stands for undefined
PaletteAt(palette, k) ==
    IF Len(palette) = 0 THEN <<>> ELSE palette[(k % Len(palette)) + 1]

\* dummy after parametric[templateName](u, v, dummy): an inherited function
\* leaves the fresh Vector3 at the origin
Generated(templateName, o) ==
    IF templateName \in ShapeIds THEN parametric(templateName, o) ELSE Zero3

\* dummy.x += (Math.random() - 0.5) * 0.3, and so for y and z
Jitter(dummy, o) ==
    Vec3(dummy[1] + Mul(random(o, 5) - 500, 300),
         dummy[2] + Mul(random(o, 6) - 500, 300),
         dummy[3] + Mul(random(o, 7) - 500, 300))

\* Math.min(1, c[k] + (Math.random() - 0.5) * variation), variation = 0.1
VariedColor(c, o) ==
    Vec3(Min1(c[1] + Mul(random(o, 8) - 500, 100)),
         Min1(c[2] + Mul(random(o, 9) - 500, 100)),
         Min1(c[3] + Mul(random(o, 10) - 500, 100)))

\* the loop over the particles from index i on; it stops where the source
\* raises a TypeError (calling a non-function, reading c[0] of undefined)
RECURSIVE setTemplateLoop(_, _, _, _)
setTemplateLoop(self, templateName, seed, i) ==
    IF i >= count THEN [ps |-> self, threw |-> FALSE]
    ELSE IF templateName \in InheritedObjects
    THEN [ps |-> self, threw |-> TRUE]
    ELSE LET o == Offset(seed, i)
             placed == [self EXCEPT !.targetPositions[i] =
                                      Jitter(Generated(templateName, o), o)]
             c == PaletteAt(PaletteOf(templateName), i)
         IN  IF c = <<>>
             THEN [ps |-> placed, threw |-> TRUE]
             ELSE setTemplateLoop(
                      [placed EXCEPT !.targetColors[i] = VariedColor(c, o)],
                      templateName, seed, i + 1)

\* setTemplate whose loop starts at particle 1: particle 0 keeps its targets
setTemplateFromOne(self, ind, tm, templateName, seed) ==
    IF ~Truthy(templateName)
    THEN [ps |-> self, ind |-> ind, tm |-> tm, threw |-> FALSE]
    ELSE LET r == setTemplateLoop([self EXCEPT !.currentTemplate = templateName],
                                  templateName, seed, 1)
         IN  IF r.threw
             THEN [ps |-> r.ps, ind |-> ind, tm |-> tm, threw |-> TRUE]
             ELSE showShapeIndicator(r.ps, ind, tm, templateName)

setTemplate(self, ind, tm, templateName, seed) ==
    IF ~Truthy(templateName)
    THEN [ps |-> self, ind |-> ind, tm |-> tm, threw |-> FALSE]
    ELSE LET r == setTemplateLoop([self EXCEPT !.currentTemplate = templateName],
                                  templateName, seed, 0)
         IN  IF r.threw
             THEN [ps |-> r.ps, ind |-> ind, tm |-> tm, threw |-> TRUE]
             ELSE showShapeIndicator(r.ps, ind, tm, templateName)

(***************************************************************************)
(* ParticleSystem.cycleColors                                              *)
(***************************************************************************)
\* HueShifted with the blue channel rotated the same way as the red one
HueShiftedSameSign(c, hueShift) ==
    Vec3(Min1(Mul(c[1], Cos(hueShift)) + Mul(c[3], Sin(hueShift))),
         c[2],
         Min1(Mul(c[3], Cos(hueShift)) + Mul(c[1], Sin(hueShift))))

\* the (r, b) rotation of cycleColors: Math.min(1, ...) on red and blue
HueShifted(c, hueShift) ==
    Vec3(Min1(Mul(c[1], Cos(hueShift)) + Mul(c[3], Sin(hueShift))),
         c[2],
         Min1(Mul(c[3], Cos(hueShift)) - Mul(c[1], Sin(hueShift))))

RECURSIVE cycleColorsLoop(_, _, _)
cycleColorsLoop(self, palette, i) ==
    IF i >= count THEN [ps |-> self, threw |-> FALSE]
    ELSE LET c == PaletteAt(palette, i + self.colorPaletteIndex)
             hueShift == self.colorPaletteIndex * 250
         IN  IF c = <<>>
             THEN [ps |-> self, threw |-> TRUE]
             ELSE cycleColorsLoop(
                      [self EXCEPT !.targetColors[i] = HueShifted(c, hueShift)],
                      palette, i + 1)

cycleColors(self) ==
    LET r == cycleColorsLoop(self, PaletteOf(self.currentTemplate), 0)
    IN  IF r.threw THEN r
        ELSE [ps |-> [r.ps EXCEPT !.colorPaletteIndex = @ + 1],
              threw |-> FALSE]

(***************************************************************************)
(* Gesture snapshots, as update reads them.  kind tells undefined and null *)
(* from an object; has holds the names of the properties the object has;   *)
(* on holds the flags that are true.  A property the object lacks reads    *)
(* as undefined: falsy as a condition, NaN in arithmetic.                  *)
(***************************************************************************)
FlagNames ==
    {"isFist", "isPinching", "isOpen", "isRock", "isPeace", "isPointing"}

FieldNames ==
    FlagNames \cup {"fingerCount", "pointer", "palmCenter", "handSpread",
                    "handDetected"}

Gestures(has, on, handDetected, handSpread, pointer) ==
    [kind |-> "object", has |-> has, on |-> on, fingerCount |-> -1,
     pointer |-> pointer, palmCenter |-> [x |-> 500, y |-> 500],
     handSpread |-> handSpread, handDetected |-> handDetected]

\* a pointer object with its coordinates, and one without (x, y undefined)
Pointer(x, y, z) == [x |-> x, y |-> y, z |-> z]

NoCoordinates == Pointer(NaN, NaN, NaN)

EmptyObject == Gestures({}, {}, FALSE, 0, NoCoordinates)

Absent(kind) == [EmptyObject EXCEPT !.kind = kind]

Flag(g, name) == name \in g.has /\ name \in g.on

HandDetected(g) == "handDetected" \in g.has /\ g.handDetected

HandSpread(g) == IF "handSpread" \in g.has THEN g.handSpread ELSE NaN

HasPointerObject(g) == "pointer" \in g.has

(***************************************************************************)
(* ParticleSystem.update                                                   *)
(***************************************************************************)
\* GestureTemplate with the peace test ahead of the rock test
GestureTemplatePeaceFirst(g) ==
    IF Flag(g, "isFist") THEN "heart"
    ELSE IF Flag(g, "isPinching") THEN "dna"
    ELSE IF Flag(g, "isOpen") THEN "galaxy"
    ELSE IF Flag(g, "isPeace") THEN "flower"
    ELSE IF Flag(g, "isRock") THEN "saturn"
    ELSE IF Flag(g, "isPointing") THEN "fireworks"
    ELSE "none"

\* GestureTemplate without the fist test
GestureTemplateNoFist(g) ==
    IF Flag(g, "isPinching") THEN "dna"
    ELSE IF Flag(g, "isOpen") THEN "galaxy"
    ELSE IF Flag(g, "isRock") THEN "saturn"
    ELSE IF Flag(g, "isPeace") THEN "flower"
    ELSE IF Flag(g, "isPointing") THEN "fireworks"
    ELSE "none"

\* the gesture -> template chain: the shape asked for, or "none"
GestureTemplate(g) ==
    IF Flag(g, "isFist") THEN "heart"
    ELSE IF Flag(g, "isPinching") THEN "dna"
    ELSE IF Flag(g, "isOpen") THEN "galaxy"
    ELSE IF Flag(g, "isRock") THEN "saturn"
    ELSE IF Flag(g, "isPeace") THEN "flower"
    ELSE IF Flag(g, "isPointing") THEN "fireworks"
    ELSE "none"

\* TargetExpansion with the spread not scaled by 0.8
TargetExpansionUnscaled(g) ==
    IF HandDetected(g) THEN Add(700, HandSpread(g)) ELSE One

\* targetExpansion = handDetected ? 0.7 + handSpread * 0.8 : 1.0
TargetExpansion(g) ==
    IF HandDetected(g) THEN Add(700, Mul(HandSpread(g), 800)) ELSE One

\* Smoothed with the difference taken the other way round
SmoothedAway(currentExp, targetExpansion) ==
    Add(currentExp, Mul(Sub(currentExp, targetExpansion), 30))

\* uExpansion.value += (targetExpansion - currentExp) * 0.03
Smoothed(currentExp, targetExpansion) ==
    Add(currentExp, Mul(Sub(targetExpansion, currentExp), 30))

\* hasPointer without the test of handDetected
hasPointerAnyHand(g) == HasPointerObject(g)

\* gestures.handDetected && gestures.pointer
hasPointer(g) == HandDetected(g) /\ HasPointerObject(g)

PointerBx(g) == IF hasPointer(g) THEN Mul(g.pointer.x, 40 * One) ELSE 9999 * One

PointerBy(g) == IF hasPointer(g) THEN Mul(g.pointer.y, 20 * One) ELSE 9999 * One

\* distSq of particle position p from the pointer position (bx, by, 0)
DistSq(p, bx, by) ==
    Add(Add(Sq(Sub(bx, p[1])), Sq(Sub(by, p[2]))), Sq(0 - p[3]))

\* distSq < 50 && distSq > 0.01
Repelled(p, bx, by) ==
    Lt(DistSq(p, bx, by), 50 * One) /\ Lt(10, DistSq(p, bx, by))

\* Seek without the factor dt
SeekNoDt(p, v, t, dt) ==
    IF ~isNaN(t[1])
    THEN Vec3(v[1] + Mul(t[1] - p[1], 2500),
              v[2] + Mul(t[2] - p[2], 2500),
              v[3] + Mul(t[3] - p[3], 2500))
    ELSE v

\* velocity after target seeking (seekStrength = 2.5)
Seek(p, v, t, dt) ==
    IF ~isNaN(t[1])
    THEN Vec3(v[1] + Mul(Mul(t[1] - p[1], 2500), dt),
              v[2] + Mul(Mul(t[2] - p[2], 2500), dt),
              v[3] + Mul(Mul(t[3] - p[3], 2500), dt))
    ELSE v

\* velocity after the push away from the pointer position
Repel(p, v, bx, by, dt) ==
    LET dx == bx - p[1]
        dy == by - p[2]
        dz == 0 - p[3]
        dist == Sqrt(DistSq(p, bx, by))
        force == Mul(7 * One - dist, 3 * One)
        nx == Div(dx, dist)
        ny == Div(dy, dist)
        nz == Div(dz, dist)
    IN  Vec3(v[1] - Mul(Mul(Mul(nx, force), dt), 6 * One),
             v[2] - Mul(Mul(Mul(ny, force), dt), 6 * One),
             v[3] - Mul(Mul(Mul(nz, force), dt), 6 * One))

Highlight(c) == Vec3(Min1(c[1] + 150), Min1(c[2] + 150), Min1(c[3] + 150))

\* colors[k] += (targetColors[k] - colors[k]) * colorLerp, colorLerp = 0.025
LerpColor(c, tc) ==
    Vec3(c[1] + Mul(tc[1] - c[1], 25),
         c[2] + Mul(tc[2] - c[2], 25),
         c[3] + Mul(tc[3] - c[3], 25))

\* Damp with no damping at all
DampNone(v) == v

\* vx *= damping, damping = 0.88
Damp(v) == Vec3(Mul(v[1], 880), Mul(v[2], 880), Mul(v[3], 880))

Integrate(p, v, dt) ==
    Vec3(p[1] + Mul(v[1], dt), p[2] + Mul(v[2], dt), p[3] + Mul(v[3], dt))

PulseSize(time, i) == 300 + Mul(400, Sin(Mul(time, 1500) + i * 10))

\* ParticleUpdate reading the velocity of the next particle (index i3 + 3)
ParticleUpdateNextVelocity(self, i, dt, bx, by) ==
    LET p == self.positions[i]
        sought == Seek(p, self.velocities[(i + 1) % count],
                       self.targetPositions[i], dt)
        near == Repelled(p, bx, by)
        pushed == IF near THEN Repel(p, sought, bx, by, dt) ELSE sought
        v == Damp(pushed)
    IN  [position |-> Integrate(p, v, dt),
         velocity |-> v,
         color    |-> IF near THEN Highlight(self.colors[i])
                      ELSE LerpColor(self.colors[i], self.targetColors[i]),
         size     |-> PulseSize(self.time, i)]

\* one pass of the per-particle loop body, for particle i
ParticleUpdate(self, i, dt, bx, by) ==
    LET p == self.positions[i]
        sought == Seek(p, self.velocities[i], self.targetPositions[i], dt)
        near == Repelled(p, bx, by)
        pushed == IF near THEN Repel(p, sought, bx, by, dt) ELSE sought
        v == Damp(pushed)
    IN  [position |-> Integrate(p, v, dt),
         velocity |-> v,
         color    |-> IF near THEN Highlight(self.colors[i])
                      ELSE LerpColor(self.colors[i], self.targetColors[i]),
         size     |-> PulseSize(self.time, i)]

RECURSIVE updateLoop(_, _, _, _, _)
updateLoop(self, dt, bx, by, i) ==
    IF i >= count THEN self
    ELSE LET n == ParticleUpdate(self, i, dt, bx, by)
         IN  updateLoop([self EXCEPT !.positions[i] = n.position,
                                     !.velocities[i] = n.velocity,
                                     !.colors[i] = n.color,
                                     !.sizes[i] = n.size],
                        dt, bx, by, i + 1)

\* update calling setTemplate for every selected template, current or not
updateAlwaysSwitch(self, ind, tm, dt, gestures, seed) ==
    LET g == IF gestures.kind = "object" THEN gestures ELSE EmptyObject
        timed == [self EXCEPT !.time = @ + dt]
        wanted == GestureTemplate(g)
        r == IF wanted # "none"
             THEN setTemplate(timed, ind, tm, wanted, seed)
             ELSE [ps |-> timed, ind |-> ind, tm |-> tm, threw |-> FALSE]
        expanded == [r.ps EXCEPT !.uExpansion =
                                   Smoothed(@, TargetExpansion(g))]
    IN  IF r.threw THEN r
        ELSE [ps |-> updateLoop(expanded, dt, PointerBx(g), PointerBy(g), 0),
              ind |-> r.ind, tm |-> r.tm, threw |-> FALSE]

update(self, ind, tm, dt, gestures, seed) ==
    LET g == IF gestures.kind = "object" THEN gestures ELSE EmptyObject
        timed == [self EXCEPT !.time = @ + dt]
        wanted == GestureTemplate(g)
        r == IF wanted # "none" /\ timed.currentTemplate # wanted
             THEN setTemplate(timed, ind, tm, wanted, seed)
             ELSE [ps |-> timed, ind |-> ind, tm |-> tm, threw |-> FALSE]
        expanded == [r.ps EXCEPT !.uExpansion =
                                   Smoothed(@, TargetExpansion(g))]
    IN  IF r.threw THEN r
        ELSE [ps |-> updateLoop(expanded, dt, PointerBx(g), PointerBy(g), 0),
              ind |-> r.ind, tm |-> r.tm, threw |-> FALSE]

(***************************************************************************)
(* HandInput.js.  A detection result carries the landmarks of the hands    *)
(* found: 21 points each, coordinates normalised to [0, 1], y downward.    *)
(***************************************************************************)
\* HandInput.constructor: the gestures object update is given once isReady
DefaultGestures ==
    Gestures(FieldNames, {}, FALSE, 0, Pointer(0, 0, 0))

HandInputConstructor ==
    [handLandmarker |-> FALSE, video |-> FALSE, hands |-> <<>>,
     isReady |-> FALSE, predicting |-> FALSE, gestures |-> DefaultGestures]

\* HandInput.dist: coordinates are thousandths, so the sum of squares is in
\* millionths and its root is in thousandths again
dist(p1, p2) ==
    SqrtIter((p1[1] - p2[1]) * (p1[1] - p2[1])
               + (p1[2] - p2[2]) * (p1[2] - p2[2])
               + (p1[3] - p2[3]) * (p1[3] - p2[3]), 0, 2000)

\* the text of #hand-label for a gestures object
GestureLabel(g) ==
    IF Flag(g, "isFist") THEN "Fist"
    ELSE IF Flag(g, "isPinching") THEN "Pinch"
    ELSE IF Flag(g, "isOpen") THEN "Open"
    ELSE IF Flag(g, "isPointing") THEN "Point"
    ELSE IF Flag(g, "isPeace") THEN "Peace"
    ELSE IF Flag(g, "isRock") THEN "Rock"
    ELSE "Tracking"

\* Classified with the open hand not excluded while pinching
ClassifiedOpenWhilePinching(fingerCount, isPinching, isIndexUp, isMiddleUp, isRingUp, isPinkyUp) ==
    IF fingerCount = 0 THEN {"isFist"}
    ELSE IF fingerCount >= 4 THEN {"isOpen"}
    ELSE IF isIndexUp /\ ~isMiddleUp /\ ~isRingUp /\ ~isPinkyUp
    THEN {"isPointing"}
    ELSE IF isIndexUp /\ isMiddleUp /\ ~isRingUp /\ ~isPinkyUp
    THEN {"isPeace"}
    ELSE IF isIndexUp /\ ~isMiddleUp /\ ~isRingUp /\ isPinkyUp
    THEN {"isRock"}
    ELSE {}

\* the gesture classification chain: the one flag it sets, or none
Classified(fingerCount, isPinching, isIndexUp, isMiddleUp, isRingUp, isPinkyUp) ==
    IF fingerCount = 0 THEN {"isFist"}
    ELSE IF fingerCount >= 4 /\ ~isPinching THEN {"isOpen"}
    ELSE IF isIndexUp /\ ~isMiddleUp /\ ~isRingUp /\ ~isPinkyUp
    THEN {"isPointing"}
    ELSE IF isIndexUp /\ isMiddleUp /\ ~isRingUp /\ ~isPinkyUp
    THEN {"isPeace"}
    ELSE IF isIndexUp /\ ~isMiddleUp /\ ~isRingUp /\ isPinkyUp
    THEN {"isRock"}
    ELSE {}

Count(flags) == Cardinality({k \in DOMAIN flags : flags[k]})

\* HandInput.processResults: the new handInput and the tracking label
processResults(self, results) ==
    LET reset == [self.gestures EXCEPT !.on = {}, !.fingerCount = -1,
                                       !.handDetected = FALSE,
                                       !.handSpread = 0]
    IN  IF ~results.hasLandmarks \/ Len(results.landmarks) = 0
        THEN [hi |-> [self EXCEPT !.gestures = reset, !.hands = <<>>],
              hud |-> [dot |-> FALSE, label |-> "No hand"]]
        ELSE
        LET lm == results.landmarks[1]
            palmX == Div(lm[0][1] + lm[5][1] + lm[17][1], 3 * One)
            palmY == Div(lm[0][2] + lm[5][2] + lm[17][2], 3 * One)
            isThumbOut == Abs(lm[4][1] - lm[2][1]) > 60
            isIndexUp  == lm[8][2] < lm[6][2]
            isMiddleUp == lm[12][2] < lm[10][2]
            isRingUp   == lm[16][2] < lm[14][2]
            isPinkyUp  == lm[20][2] < lm[18][2]
            fingerCount ==
                Count(<<isThumbOut, isIndexUp, isMiddleUp, isRingUp, isPinkyUp>>)
            isPinching == dist(lm[4], lm[8]) < 50
            palm == Vec3(palmX, palmY,
                         Div(lm[0][3] + lm[5][3] + lm[17][3], 3 * One))
            avgDist == Div(dist(lm[4], palm) + dist(lm[8], palm)
                             + dist(lm[12], palm) + dist(lm[16], palm)
                             + dist(lm[20], palm), 5 * One)
            g == [reset EXCEPT
                    !.handDetected = TRUE,
                    !.palmCenter = [x |-> palmX, y |-> palmY],
                    !.pointer = Pointer((lm[8][1] - 500) * 2,
                                        -((lm[8][2] - 500) * 2), lm[8][3]),
                    !.fingerCount = fingerCount,
                    !.handSpread = Min1(Div(avgDist, 250)),
                    !.on = (IF isPinching THEN {"isPinching"} ELSE {})
                             \cup Classified(fingerCount, isPinching, isIndexUp,
                                             isMiddleUp, isRingUp, isPinkyUp)]
        IN  [hi |-> [self EXCEPT !.gestures = g, !.hands = results.landmarks],
             hud |-> [dot |-> TRUE, label |-> GestureLabel(g)]]

\* Sample hands.  The palm is fixed; each finger tip is above its middle
\* joint (up) or below it (down); the thumb tip is away from the palm,
\* beside it, or touching the index tip.
Hand(thumb, indexUp, middleUp, ringUp, pinkyUp) ==
    LET indexTip == IF indexUp THEN Vec3(430, 350, -20) ELSE Vec3(450, 560, 0)
    IN  [k \in 0 .. 20 |->
           CASE k = 0  -> Vec3(500, 800, 0)
             [] k = 2  -> Vec3(400, 720, 0)
             [] k = 4  -> IF thumb = "out" THEN Vec3(300, 650, 0)
                          ELSE IF thumb = "in" THEN Vec3(420, 680, 0)
                          ELSE Vec3(indexTip[1] + 10, indexTip[2] + 20, indexTip[3])
             [] k = 5  -> Vec3(450, 600, 0)
             [] k = 6  -> Vec3(440, 500, 0)
             [] k = 8  -> indexTip
             [] k = 10 -> Vec3(500, 490, 0)
             [] k = 12 -> IF middleUp THEN Vec3(500, 320, 0) ELSE Vec3(500, 560, 0)
             [] k = 14 -> Vec3(550, 500, 0)
             [] k = 16 -> IF ringUp THEN Vec3(560, 350, 0) ELSE Vec3(550, 570, 0)
             [] k = 17 -> Vec3(600, 620, 0)
             [] k = 18 -> Vec3(600, 530, 0)
             [] k = 20 -> IF pinkyUp THEN Vec3(620, 420, 0) ELSE Vec3(600, 590, 0)
             [] OTHER  -> Vec3(500, 600, 0)]

Detected(lm) == [hasLandmarks |-> TRUE, landmarks |-> <<lm>>]

NoHands == [hasLandmarks |-> TRUE, landmarks |-> <<>>]

NoLandmarks == [hasLandmarks |-> FALSE, landmarks |-> <<>>]

\* every sample hand, and the two results without one
AllResults ==
    {NoHands, NoLandmarks} \cup
    {Detected(Hand(t, i, m, r, p)) :
        t \in {"out", "in", "pinch"}, i \in BOOLEAN, m \in BOOLEAN,
        r \in BOOLEAN, p \in BOOLEAN}

(***************************************************************************)
(* ParticleSystem.constructor                                              *)
(***************************************************************************)
constructor(seed, seedTargets) ==
    LET fresh ==
          [currentTemplate   |-> "galaxy",
           time              |-> 0,
           colorPaletteIndex |-> 0,
           positions  |-> [i \in Particles |->
                             Vec3(Mul(random(Offset(seed, i), 0) - 500, 80 * One),
                                  Mul(random(Offset(seed, i), 1) - 500, 80 * One),
                                  Mul(random(Offset(seed, i), 2) - 500, 80 * One))],
           colors     |-> [i \in Particles |-> Vec3(200, 500, 1000)],
           sizes      |-> [i \in Particles |->
                             randomRange(200, 1000, random(Offset(seed, i), 3))],
           aRandom    |-> [i \in Particles |-> random(Offset(seed, i), 4)],
           velocities |-> [i \in Particles |-> Zero3],
           targetPositions |-> [i \in Particles |-> Zero3],
           targetColors    |-> [i \in Particles |-> Zero3],
           uExpansion |-> One,
           _indicatorTimeout |-> 0]
    IN  setTemplate(fresh, [show |-> FALSE, name |-> ""], {}, "galaxy",
                    seedTargets)

(***************************************************************************)
(* State.                                                                  *)
(*   particleSystem  the ParticleSystem object: its fields, the geometry   *)
(*                   attribute arrays and the uExpansion uniform (uTime    *)
(*                   always equals time and is not kept apart)             *)
(*   shapeIndicator  the #shape-indicator element: its 'show' class and    *)
(*                   the text of #shape-name                               *)
(*   timeouts        the ids of the window's pending setTimeout callbacks  *)
(*   lastError       what the last call into the particle system raised    *)
(*   ticks           number of update calls so far (bounds the run)        *)
(*   dt, gestures    the arguments of update: chosen once by the caller    *)
(*                   where the class is driven directly, computed by       *)
(*                   animate for every frame where the page drives it      *)
(*   handInput       the HandInput object                                  *)
(*   hud             the #hand-dot and #hand-label elements                *)
(*   boot            how far main.js's init() has come: "loading" while    *)
(*                   it awaits handInput.init(), then "running" or, when   *)
(*                   hand tracking failed to start, "failed"               *)
(*   presses         number of keydown events so far (bounds the run)      *)
(***************************************************************************)
VARIABLES particleSystem, shapeIndicator, timeouts, lastError, ticks,
          dt, gestures, handInput, hud, boot, presses

vars == <<particleSystem, shapeIndicator, timeouts, lastError, ticks,
          dt, gestures, handInput, hud, boot, presses>>

pageVars == <<handInput, hud, boot, presses>>

(***************************************************************************)
(* Inputs.                                                                 *)
(***************************************************************************)
\* names handed to setTemplate: the nine shapes, an unknown name, and names
\* Object.prototype answers
TemplateNames ==
    ShapeIds \cup {"bogus"} \cup InheritedFunctions \cup InheritedObjects

\* frame times in ms: a 60 Hz frame and the cap main.js applies
Dts == {16, 50}

\* undefined, null and {}
AbsentSnapshots == {Absent("undefined"), Absent("null"), EmptyObject}

\* every combination of the six flags, no hand data
FlagSnapshots ==
    {Gestures(FlagNames, on, FALSE, 0, NoCoordinates) : on \in SUBSET FlagNames}

\* every combination of present and absent hand data, no flags
HandSnapshots ==
    {Gestures((IF hd = "absent" THEN {} ELSE {"handDetected"})
                \cup (IF isNaN(hs) THEN {} ELSE {"handSpread"})
                \cup (IF pt = "absent" THEN {} ELSE {"pointer"}),
              {}, hd = "true", IF isNaN(hs) THEN 0 ELSE hs,
              IF pt = "at" THEN Pointer(50, 100, 0) ELSE NoCoordinates) :
        hd \in {"absent", "false", "true"},
        hs \in {NaN, 0, 500, 1000},
        pt \in {"absent", "empty", "at"}}

Snapshots == AbsentSnapshots \cup FlagSnapshots \cup HandSnapshots

(***************************************************************************)
(* The class driven directly: calls of setTemplate, cycleColors, update.   *)
(***************************************************************************)
Constructed(r) ==
    /\ particleSystem = r.ps
    /\ shapeIndicator = r.ind
    /\ timeouts = r.tm
    /\ lastError = "none"
    /\ ticks = 0
    /\ handInput = HandInputConstructor
    /\ hud = [dot |-> FALSE, label |-> ""]
    /\ boot = "loading"
    /\ presses = 0

Returned(r) ==
    /\ particleSystem' = r.ps
    /\ shapeIndicator' = r.ind
    /\ timeouts' = r.tm
    /\ lastError' = IF r.threw THEN "TypeError" ELSE "none"

SetTemplate(templateName, seed) ==
    /\ \E r \in {setTemplate(particleSystem, shapeIndicator, timeouts,
                             templateName, seed)} : Returned(r)
    /\ UNCHANGED <<ticks, dt, gestures, pageVars>>

CycleColors ==
    /\ particleSystem.colorPaletteIndex < MaxCycles
    /\ \E r \in {cycleColors(particleSystem)} :
           /\ particleSystem' = r.ps
           /\ lastError' = IF r.threw THEN "TypeError" ELSE "none"
    /\ UNCHANGED <<shapeIndicator, timeouts, ticks, dt, gestures, pageVars>>

Update(seed) ==
    /\ ticks < MaxTicks
    /\ \E r \in {update(particleSystem, shapeIndicator, timeouts, dt, gestures,
                        seed)} : Returned(r)
    /\ ticks' = ticks + 1
    /\ UNCHANGED <<dt, gestures, pageVars>>

\* the callback of a timeout set by showShapeIndicator runs
IndicatorTimeout ==
    \E id \in timeouts :
        /\ shapeIndicator' = [shapeIndicator EXCEPT !.show = FALSE]
        /\ timeouts' = timeouts \ {id}
        /\ UNCHANGED <<particleSystem, lastError, ticks, dt, gestures, pageVars>>

\* Templates and palettes: any name, any draws, no frame in between.
Init ==
    /\ \E seed \in Seeds, seedTargets \in Seeds :
           \E r \in {constructor(seed, seedTargets)} : Constructed(r)
    /\ dt = 16
    /\ gestures = EmptyObject

Next ==
    \/ \E templateName \in TemplateNames, seed \in Seeds :
           SetTemplate(templateName, seed)
    \/ CycleColors
    \/ IndicatorTimeout

Spec == Init /\ [][Next]_vars

\* Frames: update under one snapshot and one frame time, chosen among all
\* of them, from the template the constructor set or one set by hand.
InitUpdate ==
    /\ \E seed \in Seeds, seedTargets \in Seeds :
           \E r \in {constructor(seed, seedTargets)} : Constructed(r)
    /\ dt \in Dts
    /\ gestures \in Snapshots

NextUpdate ==
    \/ \E seed \in Seeds : Update(seed)
    \/ \E templateName \in {"star", "toString"} : SetTemplate(templateName, 0)

SpecUpdate == InitUpdate /\ [][NextUpdate]_vars

\* The same calls where a pending timeout is not postponed for ever.
SpecFair == Spec /\ WF_vars(IndicatorTimeout)

\* Long runs: many frames under one snapshot that selects no template and
\* carries no pointer, at one frame time; nothing else is called.
SettleDts == {16, 40, 50}

\* undefined, {}, and a detected hand of spread 0 or 1
StillSnapshots ==
    {Absent("undefined"), EmptyObject} \cup
    {Gestures({"handDetected", "handSpread"}, {}, TRUE, hs, NoCoordinates) :
       hs \in {0, 1000}}

Settle(seed) ==
    /\ ticks < MaxFrames
    /\ \E r \in {update(particleSystem, shapeIndicator, timeouts, dt, gestures,
                        seed)} : Returned(r)
    /\ ticks' = ticks + 1
    /\ UNCHANGED <<dt, gestures, pageVars>>

InitSettle ==
    /\ \E seed \in Seeds :
           \E r \in {constructor(seed, seed)} : Constructed(r)
    /\ dt \in SettleDts
    /\ gestures \in StillSnapshots

NextSettle == \E seed \in Seeds : Settle(seed)

SpecSettle == InitSettle /\ [][NextSettle]_vars

(***************************************************************************)
(* main.js: the page.  Every handler runs to completion before the next    *)
(* one starts: the keydown listener, the hand-tracking frame callback,     *)
(* the animation frame callback, the timeout callbacks and the             *)
(* continuation of init() after handInput.init() has settled.  (The        *)
(* camera, the renderer, the loading screen and the controls panel are     *)
(* not part of the state.)                                                 *)
(***************************************************************************)
KEY_MAP ==
    [k \in {"1", "2", "3", "4", "5", "6", "7", "8", "0"} |->
       CASE k = "1" -> "heart"
         [] k = "2" -> "flower"
         [] k = "3" -> "saturn"
         [] k = "4" -> "fireworks"
         [] k = "5" -> "galaxy"
         [] k = "6" -> "dna"
         [] k = "7" -> "star"
         [] k = "8" -> "tornado"
         [] k = "0" -> "sphere"]

\* e.key of the keys pressed
Keys == DOMAIN KEY_MAP \cup {"c", "C", "h"}

toLowerCase(k) == IF k = "C" THEN "c" ELSE k

\* the steps of HandInput.init that can fail
InitSteps == {"import", "wasm", "model", "camera", "detect"}

\* detection results of the video frames
Results ==
    {NoHands, Detected(Hand("in", FALSE, FALSE, FALSE, FALSE)),
     Detected(Hand("out", TRUE, TRUE, TRUE, TRUE))}

\* animate handing handInput.gestures to update whether or not isReady
animateAlwaysGestures(d, seed) ==
    /\ ticks < MaxTicks
    /\ dt' = d
    /\ gestures' = handInput'.gestures
    /\ \E r \in {update(particleSystem, shapeIndicator, timeouts, d,
                        gestures', seed)} : Returned(r)
    /\ ticks' = ticks + 1

\* animate: one frame
animate(d, seed) ==
    /\ ticks < MaxTicks
    /\ dt' = d
    /\ gestures' = IF handInput'.isReady THEN handInput'.gestures
                   ELSE EmptyObject
    /\ \E r \in {update(particleSystem, shapeIndicator, timeouts, d,
                        gestures', seed)} : Returned(r)
    /\ ticks' = ticks + 1

\* handInput.init() resolves after a successful start: startPredicting has
\* processed the first video frame, isReady is set; init() goes on to the
\* first animate()
HandInitSucceeds(results, d, seed) ==
    /\ boot = "loading"
    /\ \E r \in {processResults([handInput EXCEPT !.handLandmarker = TRUE,
                                                   !.video = TRUE], results)} :
           /\ handInput' = [r.hi EXCEPT !.predicting = TRUE, !.isReady = TRUE]
           /\ hud' = r.hud
    /\ boot' = "running"
    /\ presses' = presses
    /\ animate(d, seed)

\* handInput.init() catches the failure of one of its steps and resolves
\* all the same; init() goes on to the first animate()
HandInitFails(step, d, seed) ==
    /\ boot = "loading"
    /\ handInput' = [handInput EXCEPT
                        !.handLandmarker = (step \in {"camera", "detect"}),
                        !.video = (step \in {"camera", "detect"})]
    /\ hud' = hud
    /\ boot' = "failed"
    /\ presses' = presses
    /\ animate(d, seed)

\* the frame callback of startPredicting
Predict(results) ==
    /\ handInput.predicting
    /\ handInput.handLandmarker /\ handInput.video
    /\ \E r \in {processResults(handInput, results)} :
           /\ handInput' = r.hi
           /\ hud' = r.hud
    /\ UNCHANGED <<particleSystem, shapeIndicator, timeouts, lastError, ticks,
                   dt, gestures, boot, presses>>

\* the frame callback of animate
Animate(d, seed) ==
    /\ boot # "loading"
    /\ UNCHANGED pageVars
    /\ animate(d, seed)

\* the keydown listener
KeyDown(eKey, seed) ==
    LET key == toLowerCase(eKey)
    IN  /\ presses < MaxKeys
        /\ presses' = presses + 1
        /\ IF key \in DOMAIN KEY_MAP
           THEN \E r \in {setTemplate(particleSystem, shapeIndicator, timeouts,
                                      KEY_MAP[key], seed)} : Returned(r)
           ELSE IF key = "c"
           THEN /\ particleSystem.colorPaletteIndex < MaxCycles
                /\ \E r \in {cycleColors(particleSystem)} :
                       /\ particleSystem' = r.ps
                       /\ lastError' = IF r.threw THEN "TypeError" ELSE "none"
                /\ UNCHANGED <<shapeIndicator, timeouts>>
           ELSE UNCHANGED <<particleSystem, shapeIndicator, timeouts, lastError>>
        /\ UNCHANGED <<ticks, dt, gestures, handInput, hud, boot>>

InitPage ==
    /\ \E r \in {constructor(0, 0)} : Constructed(r)
    /\ dt = 0
    /\ gestures = EmptyObject

NextPage ==
    \/ \E results \in Results : HandInitSucceeds(results, 16, 0)
    \/ \E step \in InitSteps : HandInitFails(step, 16, 0)
    \/ \E results \in Results : Predict(results)
    \/ Animate(16, 0)
    \/ \E eKey \in Keys : KeyDown(eKey, 0)
    \/ IndicatorTimeout

SpecPage == InitPage /\ [][NextPage]_vars

\* Hand tracking with every sample result: the start with its first frame,
\* then hand-tracking frames; no keys, no later animation frame.
NextHand ==
    \/ \E results \in AllResults : HandInitSucceeds(results, 16, 0)
    \/ \E results \in AllResults : Predict(results)

SpecHand == InitPage /\ [][NextHand]_vars

(***************************************************************************)
(* Properties.                                                             *)
(***************************************************************************)
\* a step that is one call of update
Ticked == ticks' = ticks + 1

PriorityOrder ==
    <<"isFist", "isPinching", "isOpen", "isRock", "isPeace", "isPointing">>

ShapeOfFlag ==
    [isFist |-> "heart", isPinching |-> "dna", isOpen |-> "galaxy",
     isRock |-> "saturn", isPeace |-> "flower", isPointing |-> "fireworks"]

\* the places in PriorityOrder of the flags a snapshot sets
SetFlags(g) ==
    IF g.kind = "object"
    THEN {k \in DOMAIN PriorityOrder :
            PriorityOrder[k] \in g.has /\ PriorityOrder[k] \in g.on}
    ELSE {}

FirstSetFlag(g) ==
    PriorityOrder[CHOOSE k \in SetFlags(g) : \A j \in SetFlags(g) : k <= j]

\* C1: after an update the current template is the shape of the first flag
\* the snapshot sets, in the order fist > pinching > open > rock > peace >
\* pointing, whatever other flags are set; with no flag set, or with an
\* undefined, null or empty snapshot, it is the template of before.
C1_TemplateByPriority ==
    [][Ticked =>
         particleSystem'.currentTemplate =
           IF SetFlags(gestures') = {} THEN particleSystem.currentTemplate
           ELSE ShapeOfFlag[FirstSetFlag(gestures')]]_vars

\* an update has run under a snapshot that sets rock, peace and pointing
C1_Witness ==
    /\ ticks >= 1
    /\ gestures.kind = "object"
    /\ gestures.on = {"isRock", "isPeace", "isPointing"}
    /\ particleSystem.currentTemplate = "saturn"

\* C2: setTemplate with a name that is none of the nine shapes, inherited
\* property names included, changes nothing of the particle system and
\* raises no error.
C2_UnknownNameIsNoOp ==
    [][\A templateName \in TemplateNames \ ShapeIds, seed \in Seeds :
         SetTemplate(templateName, seed) =>
           /\ particleSystem' = particleSystem
           /\ lastError' = "none"]_vars

InUnitRange(c) == \A k \in 1..3 : 0 <= c[k] /\ c[k] <= One

\* C3: every channel of every current color and every target color lies in
\* [0, 1] in every reachable state.
C3_ColorsInUnitRange ==
    \A i \in Particles :
        /\ InUnitRange(particleSystem.colors[i])
        /\ InUnitRange(particleSystem.targetColors[i])

\* a step that is one call of cycleColors
Cycled == CycleColors

\* C5: every call of cycleColors adds exactly 1 to the palette cycle index,
\* rewrites the target color of every particle (so it completes: no error),
\* and leaves currentTemplate, targetPositions, positions, velocities and
\* the clock as they were.
C5_CycleIncrementsAndRewrites ==
    [][Cycled =>
         /\ lastError' = "none"
         /\ particleSystem'.colorPaletteIndex =
              particleSystem.colorPaletteIndex + 1
         /\ particleSystem'.currentTemplate = particleSystem.currentTemplate
         /\ particleSystem'.targetPositions = particleSystem.targetPositions
         /\ particleSystem'.positions = particleSystem.positions
         /\ particleSystem'.velocities = particleSystem.velocities
         /\ particleSystem'.time = particleSystem.time]_vars

\* entry k (from 0) of a shape's palette, counted round
BaseEntry(templateName, k) ==
    SHAPE_COLORS[templateName][(k % Len(SHAPE_COLORS[templateName])) + 1]

\* c turned by n quarter-radians in the (red, blue) plane, green kept, red
\* and blue capped at 1
Rotated(c, n) ==
    <<Min1(Mul(c[1], Cos(250 * n)) + Mul(c[3], Sin(250 * n))),
      c[2],
      Min1(Mul(c[3], Cos(250 * n)) - Mul(c[1], Sin(250 * n)))>>

\* a call of cycleColors that ran to its end
CycleCompleted ==
    particleSystem'.colorPaletteIndex = particleSystem.colorPaletteIndex + 1

\* C6 as stated: after a call of cycleColors the target color of particle i
\* is the palette entry i mod paletteLength, whatever the cycle index,
\* rotated by the angle of the incremented index.
C6_FixedEntryRotatedByNewIndex ==
    [][CycleCompleted =>
         \A i \in Particles :
             particleSystem'.targetColors[i] =
               Rotated(BaseEntry(particleSystem.currentTemplate, i),
                       particleSystem'.colorPaletteIndex)]_vars

\* C6 amended: the call made at cycle index n (the index before the call)
\* sets the target color of particle i to the palette entry
\* (i + n) mod paletteLength rotated by 0.25 * n radians.
C6_ShiftedEntryRotatedByOldIndex ==
    [][CycleCompleted =>
         \A i \in Particles :
             particleSystem'.targetColors[i] =
               Rotated(BaseEntry(particleSystem.currentTemplate,
                                 i + particleSystem.colorPaletteIndex),
                       particleSystem.colorPaletteIndex)]_vars

\* paletteLength calls were made on star: particle 0 holds entry 3, not 0
C6_Witness ==
    /\ particleSystem.currentTemplate = "star"
    /\ particleSystem.colorPaletteIndex = Len(SHAPE_COLORS["star"])
    /\ particleSystem.targetColors[0] = Rotated(BaseEntry("star", 3), 3)
    /\ particleSystem.targetColors[0] # Rotated(BaseEntry("star", 0), 3)

\* the snapshot reports a hand (handDetected present and true)
HandReported(g) ==
    g.kind = "object" /\ "handDetected" \in g.has /\ g.handDetected

\* the snapshot carries a pointer object
PointerGiven(g) == g.kind = "object" /\ "pointer" \in g.has

\* 0.7 + 0.8 * handSpread in the arithmetic of the source, where a missing
\* handSpread is undefined and the sum NaN
SpreadTarget(g) ==
    Add(700, Mul(800, IF "handSpread" \in g.has THEN g.handSpread ELSE NaN))

\* C7: every update moves the expansion factor toward its target by 3% of
\* the difference: expansion' = expansion + (target - expansion) * 0.03, the
\* target being 1.0 with no hand detected or no snapshot, and
\* 0.7 + 0.8 * handSpread with a hand detected.
C7_ExpansionSmoothed ==
    [][Ticked =>
         particleSystem'.uExpansion =
           LET target == IF HandReported(gestures') THEN SpreadTarget(gestures')
                         ELSE One
           IN  Add(particleSystem.uExpansion,
                   Mul(Sub(target, particleSystem.uExpansion), 30))]_vars

\* two updates under a detected hand of spread 0.5: target 1.1, expansion
\* 1.0 -> 1.003 -> 1.006
C7_Witness ==
    /\ ticks = 2
    /\ HandReported(gestures)
    /\ "handSpread" \in gestures.has /\ gestures.handSpread = 500
    /\ particleSystem.uExpansion = 1006

\* velocity and color of particle i after an update that does not repel it
Unrepelled(i) ==
    LET p == particleSystem.positions[i]
        v == particleSystem.velocities[i]
        t == particleSystem'.targetPositions[i]
        c == particleSystem.colors[i]
        tc == particleSystem'.targetColors[i]
    IN  [velocity |-> [k \in 1..3 |->
                         Mul(v[k] + Mul(Mul(t[k] - p[k], 2500), dt'), 880)],
         color    |-> [k \in 1..3 |-> c[k] + Mul(tc[k] - c[k], 25)]]

\* squared distance of position p from the point (40 x, 20 y, 0)
FromPointerSq(p, x, y) ==
    Sq(40 * x - p[1]) + Sq(20 * y - p[2]) + Sq(p[3])

\* C8: an update with no snapshot, with handDetected false or with no
\* pointer repels no particle: every velocity is the damped seek velocity,
\* no color is highlighted, every color is blended toward its target at
\* rate 0.025.  With a hand and a pointer the repulsion point is
\* (40 pointer.x, 20 pointer.y, 0): the particles highlighted are those at a
\* squared distance between 0.01 and 50 from it.
C8_RepulsionPoint ==
    [][Ticked =>
         \A i \in Particles :
             IF ~(HandReported(gestures') /\ PointerGiven(gestures'))
             THEN /\ particleSystem'.velocities[i] = Unrepelled(i).velocity
                  /\ particleSystem'.colors[i] = Unrepelled(i).color
             ELSE ~isNaN(gestures'.pointer.x) /\ ~isNaN(gestures'.pointer.y) =>
                    LET d == FromPointerSq(particleSystem.positions[i],
                                           gestures'.pointer.x,
                                           gestures'.pointer.y)
                        c == particleSystem.colors[i]
                    IN  particleSystem'.colors[i] =
                          IF d < 50 * One /\ d > 10
                          THEN [k \in 1..3 |->
                                  IF c[k] + 150 < One THEN c[k] + 150 ELSE One]
                          ELSE Unrepelled(i).color]_vars

\* an update ran under a pointer with no hand detected while particle 0 was
\* within reach of the point the pointer stands for
C8_Witness ==
    /\ ticks >= 1
    /\ PointerGiven(gestures) /\ ~HandReported(gestures)
    /\ ~isNaN(gestures.pointer.x)
    /\ FromPointerSq(particleSystem.positions[0], gestures.pointer.x,
                     gestures.pointer.y) < 50 * One

Finite(vec) == \A k \in 1..3 : ~isNaN(vec[k])

\* C9: under a snapshot that lacks any of its fields an update raises
\* nothing, takes the absent parts for 'no gesture' (with handDetected or
\* handSpread absent the expansion moves toward 1.0 as with no hand), and
\* leaves the expansion factor and every position, velocity, color and
\* size a finite number.
C9_PartialSnapshotHarmless ==
    [][Ticked =>
         /\ lastError' = "none"
         /\ ~isNaN(particleSystem'.uExpansion)
         /\ \A i \in Particles :
                /\ Finite(particleSystem'.positions[i])
                /\ Finite(particleSystem'.velocities[i])
                /\ Finite(particleSystem'.colors[i])
                /\ ~isNaN(particleSystem'.sizes[i])
         /\ (gestures'.kind = "object"
               /\ ~{"handDetected", "handSpread"} \subseteq gestures'.has) =>
                particleSystem'.uExpansion =
                  Add(particleSystem.uExpansion,
                      Mul(Sub(One, particleSystem.uExpansion), 30))]_vars

\* the targets setTemplate(templateName) writes for particle i; the page
\* draws from the stream of seed 0
SwitchedPosition(templateName, i) ==
    Jitter(Generated(templateName, Offset(0, i)), Offset(0, i))

\* the target colors setTemplate or a later cycleColors writes for particle i
ColorsFor(templateName, i) ==
    {VariedColor(BaseEntry(templateName, i), Offset(0, i))}
      \cup {Rotated(BaseEntry(templateName, i + n), n) : n \in 0..MaxCycles}

\* every target entry was produced for templateName
AllTargetsFor(ps, templateName) ==
    \A i \in Particles :
        /\ ps.targetPositions[i] = SwitchedPosition(templateName, i)
        /\ ps.targetColors[i] \in ColorsFor(templateName, i)

C10_KeyboardOnlyAfterFailure ==
    /\ [](boot = "failed" =>
            /\ ~handInput.isReady
            /\ ticks >= 1
            /\ gestures = EmptyObject)
    /\ [][boot = "failed" => boot' = "failed" /\ ~handInput'.isReady]_vars
    /\ [][boot' = "failed" /\ Ticked => lastError' = "none"]_vars
    /\ [][\A eKey \in DOMAIN KEY_MAP :
            boot = "failed" /\ KeyDown(eKey, 0) =>
              /\ lastError' = "none"
              /\ particleSystem'.currentTemplate = KEY_MAP[eKey]
              /\ \A i \in Particles :
                     /\ particleSystem'.targetPositions[i] =
                          SwitchedPosition(KEY_MAP[eKey], i)
                     /\ particleSystem'.targetColors[i] =
                          VariedColor(BaseEntry(KEY_MAP[eKey], i), Offset(0, i))
              /\ shapeIndicator' = [show |-> TRUE, name |-> KEY_MAP[eKey]]]_vars
    /\ [][\A eKey \in {"c", "C"} :
            boot = "failed" /\ KeyDown(eKey, 0) =>
              /\ lastError' = "none"
              /\ particleSystem'.colorPaletteIndex =
                   particleSystem.colorPaletteIndex + 1]_vars

\* after a failed start: key 8 switched to tornado and frames went on
C10_Witness ==
    /\ boot = "failed"
    /\ ~handInput.isReady
    /\ presses >= 1
    /\ ticks >= 2
    /\ particleSystem.currentTemplate = "tornado"
    /\ AllTargetsFor(particleSystem, "tornado")
    /\ gestures = EmptyObject

\* the shape a snapshot selects, by the order of C1, or "none"
Selected(g) ==
    IF SetFlags(g) = {} THEN "none" ELSE ShapeOfFlag[FirstSetFlag(g)]

\* C11: an update whose snapshot selects no template, or selects the
\* current one, does not call setTemplate: the target positions and colors
\* stay as they are and the shape indicator and its timer are not touched,
\* so a gesture held over consecutive updates switches at most once.
C11_ReseedOnlyOnChange ==
    [][(Ticked
         /\ Selected(gestures') \in {"none", particleSystem.currentTemplate}) =>
         /\ particleSystem'.targetPositions = particleSystem.targetPositions
         /\ particleSystem'.targetColors = particleSystem.targetColors
         /\ particleSystem'._indicatorTimeout = particleSystem._indicatorTimeout
         /\ shapeIndicator' = shapeIndicator
         /\ timeouts' = timeouts]_vars

\* a fist was held over two updates: the first switched to heart, the
\* second found heart current
C11_Witness ==
    /\ ticks = 2
    /\ Selected(gestures) = "heart"
    /\ particleSystem.currentTemplate = "heart"
    /\ lastError = "none"

\* the velocity of particle i after an update whose seek force pulls toward
\* the point goal: the pull, the push away from the pointer if the particle
\* is within its reach, then the damping
VelocityToward(i, goal) ==
    LET p == particleSystem.positions[i]
        v == particleSystem.velocities[i]
        sought == [k \in 1..3 |-> v[k] + Mul(Mul(goal[k] - p[k], 2500), dt')]
        bx == PointerBx(gestures')
        by == PointerBy(gestures')
    IN  Damp(IF Repelled(p, bx, by) THEN Repel(p, sought, bx, by, dt')
             ELSE sought)

\* C12 as stated: the seek force pulls each particle toward its target
\* position scaled by the expansion factor:
\* velocity += (targetPosition * expansionFactor - position) * 2.5 * dt.
C12_SeeksScaledTarget ==
    [][(Ticked /\ ~isNaN(particleSystem'.uExpansion)) =>
         \A i \in Particles :
             particleSystem'.velocities[i] =
               VelocityToward(i,
                 [k \in 1..3 |-> Mul(particleSystem'.targetPositions[i][k],
                                     particleSystem'.uExpansion)])]_vars

\* C12 amended: the seek force pulls each particle toward its target
\* position itself: velocity += (targetPosition - position) * 2.5 * dt,
\* whatever the expansion factor.
C12_SeeksTarget ==
    [][Ticked =>
         \A i \in Particles :
             particleSystem'.velocities[i] =
               VelocityToward(i, particleSystem'.targetPositions[i])]_vars

\* updates ran under a detected hand, with an expansion factor other than 1
C12_Witness ==
    /\ ticks >= 1
    /\ HandReported(gestures)
    /\ ~isNaN(particleSystem.uExpansion)
    /\ particleSystem.uExpansion # One
    /\ \A i \in Particles : particleSystem.velocities[i] # Zero3

\* the loop body of update run over the particles in the order given
RECURSIVE updateInOrder(_, _, _, _, _)
updateInOrder(self, d, bx, by, order) ==
    IF order = <<>> THEN self
    ELSE LET i == Head(order)
             n == ParticleUpdate(self, i, d, bx, by)
         IN  updateInOrder([self EXCEPT !.positions[i] = n.position,
                                        !.velocities[i] = n.velocity,
                                        !.colors[i] = n.color,
                                        !.sizes[i] = n.size],
                           d, bx, by, Tail(order))

\* every order of the particles
Orders ==
    {order \in [1..count -> Particles] :
       \A j, k \in 1..count : j # k => order[j] # order[k]}

\* the particle system as the loop of this update found it: the clock, the
\* targets and the expansion factor of after the update, the per-particle
\* arrays of before
BeforeLoop ==
    [particleSystem' EXCEPT !.positions = particleSystem.positions,
                            !.velocities = particleSystem.velocities,
                            !.colors = particleSystem.colors,
                            !.sizes = particleSystem.sizes]

\* C13: the per-particle updates of one tick are independent: running the
\* loop body over the particles in any order gives the state the update
\* left.
C13_AnyOrderSameState ==
    [][Ticked =>
         \A order \in Orders :
             particleSystem' =
               updateInOrder(BeforeLoop, dt', PointerBx(gestures'),
                             PointerBy(gestures'), order)]_vars

\* two updates ran with a hand pointing among the particles, which have
\* moved apart from where they started
C13_Witness ==
    /\ ticks = 2
    /\ HandReported(gestures) /\ PointerGiven(gestures)
    /\ ~isNaN(gestures.pointer.x)
    /\ particleSystem.velocities[0] # particleSystem.velocities[1]
    /\ particleSystem.velocities[0] # Zero3

\* the distance between two points, in hundredths of a unit
Distance(p, q) ==
    LET dx == Abs(p[1] - q[1]) \div 10
        dy == Abs(p[2] - q[2]) \div 10
        dz == Abs(p[3] - q[3]) \div 10
    IN  SqrtIter(dx * dx + dy * dy + dz * dz, 0, 20000)

\* the distance of particle i of ps from its target
Off(ps, i) == Distance(ps.positions[i], ps.targetPositions[i])

\* the system as its constructor left it, recognised by what no update
\* writes: the aRandom attribute and, with no switch, the targets
AsConstructed ==
    CHOOSE c \in {constructor(seed, seed).ps : seed \in Seeds} :
       /\ c.aRandom = particleSystem.aRandom
       /\ c.targetPositions = particleSystem.targetPositions

\* C14 as stated, in the case of no hand, where the expansion factor stays 1
\* and the scaled target is the target: at any fixed frame time up to the
\* cap of 0.05 s, no update lets a particle end farther from its target
\* than it was.
C14_NeverFarther ==
    [][(Ticked /\ ~HandReported(gestures')) =>
         \A i \in Particles :
            Off(particleSystem', i) <= Off(particleSystem, i)]_vars

\* C14: with a snapshot that selects no template and carries no pointer,
\* at a fixed frame time of at most 0.04 s no update lets a particle end
\* farther from its target than it was; at any frame time up to 0.05 s a
\* particle is never farther from its target than at the start, ends
\* farther than it was only within 1% of its starting distance, and after
\* MaxFrames updates is within 0.3 units of the target.
C14_SettlesOnTarget ==
    /\ [][(Ticked /\ dt' <= 40) =>
            \A i \in Particles :
               Off(particleSystem', i) <= Off(particleSystem, i)]_vars
    /\ [][(Ticked /\ dt' <= 50) =>
            \A i \in Particles :
               Off(particleSystem', i) > Off(particleSystem, i) =>
                  100 * Off(particleSystem', i) <= Off(AsConstructed, i)]_vars
    /\ [](LET start == AsConstructed
          IN  \A i \in Particles :
                 /\ Off(particleSystem, i) <= Off(start, i)
                 /\ ticks = MaxFrames => Off(particleSystem, i) <= 30)

\* a long run at the capped frame time has passed its target and come
\* back to rest within 0.3 units of it, from more than 20 units away
C14_Witness ==
    /\ ticks = MaxFrames
    /\ dt = 50
    /\ \A i \in Particles :
          /\ Off(AsConstructed, i) > 2000
          /\ Off(particleSystem, i) <= 30

\* the shapes no gesture selects
KeyOnlyShapes == {"star", "tornado", "sphere"}

\* C15: however keydown calls and frames interleave, an update whose
\* snapshot sets a gesture flag ends with the shape of that gesture current,
\* whatever a key chose before; star, tornado and sphere become current only
\* in a keydown step, and an update ends with one of them current only if
\* its snapshot set no flag and that shape was current before.
C15_GestureOverridesKey ==
    /\ [][(Ticked /\ SetFlags(gestures') # {}) =>
            particleSystem'.currentTemplate = Selected(gestures')]_vars
    /\ [][(/\ particleSystem'.currentTemplate \in KeyOnlyShapes
           /\ particleSystem'.currentTemplate # particleSystem.currentTemplate)
          => presses' = presses + 1]_vars
    /\ [][(Ticked /\ particleSystem'.currentTemplate \in KeyOnlyShapes) =>
            /\ SetFlags(gestures') = {}
            /\ particleSystem.currentTemplate
                 = particleSystem'.currentTemplate]_vars

\* a key was pressed and frames ran; the last frame was given a fist and
\* left heart current
C15_Witness ==
    /\ presses >= 1
    /\ ticks = 2
    /\ handInput.isReady
    /\ Flag(gestures, "isFist")
    /\ particleSystem.currentTemplate = "heart"
    /\ AllTargetsFor(particleSystem, "heart")

\* the gestures of which the classification chain sets one
ChainFlags == {"isFist", "isOpen", "isPointing", "isPeace", "isRock"}

\* the shape the gesture named by the hand label stands for in update
ShapeOfLabel ==
    [Fist |-> "heart", Pinch |-> "dna", Open |-> "galaxy", Point |-> "fireworks",
     Peace |-> "flower", Rock |-> "saturn"]

\* C16: after every processResults call at most one of isFist, isOpen,
\* isPointing, isPeace, isRock is set, isOpen is never set with isPinching,
\* and two flags are set only if one is isPinching; a result without
\* landmarks leaves no flag set, handDetected false and handSpread 0; the
\* gesture the label names is the one whose shape update selects, and a
\* label naming none goes with a snapshot selecting none.
C16_OneGesture ==
    /\ [](LET g == handInput.gestures
          IN  /\ Cardinality(g.on \cap ChainFlags) <= 1
              /\ ~({"isOpen", "isPinching"} \subseteq g.on)
              /\ Cardinality(g.on) >= 2 => "isPinching" \in g.on
              /\ hud.label = "No hand" =>
                    /\ g.on = {}
                    /\ ~g.handDetected
                    /\ g.handSpread = 0
              /\ IF hud.label \in DOMAIN ShapeOfLabel
                 THEN Selected(g) = ShapeOfLabel[hud.label]
                 ELSE Selected(g) = "none")
    /\ [][(Ticked /\ hud'.label \in DOMAIN ShapeOfLabel) =>
            particleSystem'.currentTemplate = ShapeOfLabel[hud'.label]]_vars

\* a pinching fist was processed: two flags set, the label says Fist and
\* the frame after it made heart current
C16_Witness ==
    /\ handInput.gestures.on = {"isFist", "isPinching"}
    /\ hud.label = "Fist"
    /\ gestures = handInput.gestures
    /\ ticks >= 1
    /\ particleSystem.currentTemplate = "heart"

\* x lies between a and b, ends included, whichever of them is the larger
Between(x, a, b) == (a <= x /\ x <= b) \/ (b <= x /\ x <= a)

\* C17: the expansion factor is always in [0.7, 1.5]: it starts at 1.0 and
\* every update under a snapshot with no hand or with handSpread in [0, 1]
\* leaves it between its old value and the target of that snapshot, which is
\* in [0.7, 1.5].
C17_ExpansionInRange ==
    /\ [](700 <= particleSystem.uExpansion /\ particleSystem.uExpansion <= 1500)
    /\ [][Ticked =>
            LET target == IF HandReported(gestures') THEN SpreadTarget(gestures')
                          ELSE One
            IN  /\ 700 <= target /\ target <= 1500
                /\ Between(particleSystem'.uExpansion,
                           particleSystem.uExpansion, target)]_vars

\* a long run under a fully spread hand: the expansion factor has risen from
\* 1.0 to within 0.02 of its target 1.5
C17_Witness ==
    /\ ticks = MaxFrames
    /\ HandReported(gestures)
    /\ gestures.handSpread = 1000
    /\ particleSystem.uExpansion >= 1480
    /\ particleSystem.uExpansion <= 1500

\* C18: a setTemplate call that makes the switch without raising leaves the
\* indicator shown with the new shape's name and exactly one hide timer
\* pending, the one it started; at most one timer is ever pending and it is
\* the one of the most recent switch; the indicator is hidden only by that
\* timer running; while the indicator is shown its timer is pending, and a
\* shown indicator is eventually hidden.
C18_IndicatorTimer ==
    /\ [][\A templateName \in TemplateNames, seed \in Seeds :
            (/\ Truthy(templateName)
             /\ lastError' = "none"
             /\ particleSystem'.currentTemplate = templateName
             /\ SetTemplate(templateName, seed))
            => /\ shapeIndicator' = [show |-> TRUE, name |-> templateName]
               /\ timeouts' = {particleSystem'._indicatorTimeout}]_vars
    /\ [](/\ Cardinality(timeouts) <= 1
          /\ timeouts \subseteq {particleSystem._indicatorTimeout}
          /\ shapeIndicator.show => timeouts # {})
    /\ [][(shapeIndicator.show /\ ~shapeIndicator'.show) =>
            /\ timeouts = {particleSystem._indicatorTimeout}
            /\ timeouts' = {}
            /\ particleSystem' = particleSystem]_vars
    /\ (shapeIndicator.show ~> ~shapeIndicator.show)

\* after a second switch, to star, the indicator shows Star with one timer
\* pending
C18_Witness ==
    /\ particleSystem.currentTemplate = "star"
    /\ shapeIndicator = [show |-> TRUE, name |-> "star"]
    /\ timeouts = {particleSystem._indicatorTimeout}
    /\ lastError = "none"

====
